---- MODULE Spec2Model ----
(***************************************************************************)
(* Model of OpenAIConversationHandler (src/openai_conversation.py): the    *)
(* conversation transcript, its cursor, the construction-time generation   *)
(* parameters, and the five public operations on them.  Each action is one *)
(* whole call of a method; the variables op, user_msg, gpt_response,       *)
(* index, pre, request, raised, returned and printed record what the       *)
(* caller of the most recent call passed in and observed.                  *)
(***************************************************************************)
EXTENDS Integers, Sequences, FiniteSets, TLC

VARIABLES
    api_key,            \* openai.api_key (process-wide), line 29
    model,              \* self.model
    temperature,        \* self.temperature
    max_tokens,         \* self.max_tokens
    top_p,              \* self.top_p
    frequency_penalty,  \* self.frequency_penalty
    presence_penalty,   \* self.presence_penalty
    system_context,     \* self.system_context
    messages,           \* self.messages
    message_index,      \* self.message_index
    op,                 \* the method most recently called
    user_msg,           \* its user_msg argument (add_message_from_user)
    gpt_response,       \* its gpt_response argument, or the outcome of create()
    index,              \* its index argument (get_response)
    pre,                \* messages and message_index when the call started
    request,            \* what the call passed to openai.ChatCompletion.create
    raised,             \* the exception the call raised to its caller
    returned,           \* the value the call returned to its caller
    printed,            \* what the call printed
    pc                  \* the line a call in progress executes next, "idle" between calls

config == <<api_key, model, temperature, max_tokens, top_p, frequency_penalty, presence_penalty, system_context>>

vars == <<api_key, model, temperature, max_tokens, top_p, frequency_penalty, presence_penalty, system_context, messages, message_index, op, user_msg, gpt_response, index, pre, request, raised, returned, printed, pc>>

----------------------------------------------------------------------------
(* Bounds *)

\* Longest transcript explored.
MaxLen == 4

\* get_response is called with index None or an integer in -MaxIndex..MaxIndex.
MaxIndex == 6

----------------------------------------------------------------------------
(* Python values: a value is its type and its printed form. *)

PyValue(ty, v) == [ty |-> ty, v |-> v]

PyNone == PyValue("NoneType", "None")

\* MyStr stands for a subclass of str: textual, but type(x) is not str.
Values == { PyValue("str", "Hi"), PyValue("str", "Hello!"), PyValue("MyStr", "Hi"), PyValue("int", "42"), PyNone }

IsTextual(x) == x.ty \in {"str", "MyStr"}

\* The exception classes that occur, each with its base classes (itself
\* included).  openai.error.APIError and openai.error.RateLimitError derive
\* from OpenAIError, which derives from Exception.
Bases(exc) ==
    CASE exc = "APIError" -> {"APIError", "OpenAIError", "Exception", "BaseException"}
      [] exc = "RateLimitError" -> {"RateLimitError", "OpenAIError", "Exception", "BaseException"}
      [] exc = "IndexError" -> {"IndexError", "LookupError", "Exception", "BaseException"}
      [] exc = "AttributeError" -> {"AttributeError", "Exception", "BaseException"}
      [] exc = "ValueError" -> {"ValueError", "Exception", "BaseException"}
      [] OTHER -> {exc, "BaseException"}

IsInstance(exc, cls) == cls \in Bases(exc)

NoException == "none"

\* The result of evaluating an expression: the exception it raised, or its value.
Raise(exc) == [raised |-> exc, value |-> PyNone]

Value(v) == [raised |-> NoException, value |-> v]

----------------------------------------------------------------------------
(* The inputs explored *)

\* Construction arguments: (model_name, temperature, max_tokens, top_p,
\* frequency_penalty, presence_penalty).  The first is the defaults of lines
\* 23-27; sampling parameters are written in hundredths.
GenerationConfigs == { [model |-> "gpt-3.5-turbo", temperature |-> 100, max_tokens |-> 1024, top_p |-> 100, frequency_penalty |-> 0, presence_penalty |-> 0], [model |-> "gpt-4", temperature |-> 70, max_tokens |-> 256, top_p |-> 90, frequency_penalty |-> 50, presence_penalty |-> 20] }

SystemContexts == { PyValue("str", "You are helpful."), PyValue("str", "Hi") }

ApiKeys == { "sk-test" }

\* Arguments given to add_message_from_user.
UserMsgs == { PyValue("str", "Hi"), PyValue("MyStr", "Hi"), PyValue("int", "42"), PyNone }

\* One candidate of a completion: with a message whose content is a value, or
\* without a message attribute.
Choice(v) == [has_message |-> TRUE, content |-> v]

NoMessageChoice == [has_message |-> FALSE, content |-> PyNone]

Choices == { NoMessageChoice, Choice(PyValue("str", "Hello!")), Choice(PyValue("int", "42")), Choice(PyNone) }

ChoiceLists == { <<>> } \cup { <<a>> : a \in Choices } \cup { <<a, b>> : a \in Choices, b \in Choices }

Response(choices) == [kind |-> "response", choices |-> choices]

Responses == { Response(c) : c \in ChoiceLists }

\* openai.ChatCompletion.create returns a response or raises: an APIError, or
\* another error of the library (RateLimitError stands for those).
CreateRaises(exc) == [kind |-> exc, choices |-> <<>>]

CreateOutcomes == Responses \cup { CreateRaises("APIError"), CreateRaises("RateLimitError") }

NoResponse == [kind |-> "none", choices |-> <<>>]

\* A plain value of type ty (a text, a number) given where a response is
\* expected: an object without a choices attribute.
PlainValue(ty) == [kind |-> ty, choices |-> <<>>]

\* Arguments given to add_message_from_gpt_response by a caller.
GptResponseArguments == Responses \cup { PlainValue("str"), PlainValue("int") }

\* The index argument of get_response: None (the default) or an integer.
IndexNone == [is_none |-> TRUE, n |-> 0]

IndexInt(n) == [is_none |-> FALSE, n |-> n]

Indices == { IndexNone } \cup { IndexInt(n) : n \in (0 - MaxIndex)..MaxIndex }

----------------------------------------------------------------------------
(* The methods, as functions of the fields they read *)

\* The dict literal of lines 82-85.
Message(role, content) == [role |-> role, content |-> content]

\* add_message without line 86: the cursor is left behind.
add_message_no_advance(msgs, idx, role, content) == [messages |-> Append(msgs, Message(role, content)), message_index |-> idx]

\* add_message inserting at the front of the list instead of appending.
add_message_at_front(msgs, idx, role, content) == [messages |-> <<Message(role, content)>> \o msgs, message_index |-> idx + 1]

\* add_message writing over the most recent message instead of appending.
add_message_replace_last(msgs, idx, role, content) == [messages |-> IF Len(msgs) = 0 THEN <<Message(role, content)>> ELSE [msgs EXCEPT ![Len(msgs)] = Message(role, content)], message_index |-> idx + 1]

\* lines 82-86: append the dict, advance the cursor.
add_message(msgs, idx, role, content) == [messages |-> Append(msgs, Message(role, content)), message_index |-> idx + 1]

\* lines 38-40: empty list, cursor -1, add the system message.
init_history(context) == add_message(<<>>, 0 - 1, "system", context)

\* clear_history without line 46: the old messages are kept.
clear_history_keep_messages(msgs, idx, context) == add_message(msgs, 0 - 1, "system", context)

\* lines 46-48: empty list, cursor -1, add the system message again.
clear_history(msgs, idx, context) == add_message(<<>>, 0 - 1, "system", context)

\* line 57 reading the last candidate instead of the first.
reply_last(response) ==
    IF response.kind # "response" THEN Raise("AttributeError")
    ELSE IF Len(response.choices) = 0 THEN Raise("IndexError")
    ELSE IF ~response.choices[1].has_message THEN Raise("AttributeError")
    ELSE Value(response.choices[Len(response.choices)].content)

\* line 57: gpt_response.choices[0].message.content
reply(response) ==
    IF response.kind # "response" THEN Raise("AttributeError")
    ELSE IF Len(response.choices) = 0 THEN Raise("IndexError")
    ELSE IF ~response.choices[1].has_message THEN Raise("AttributeError")
    ELSE Value(response.choices[1].content)

\* lines 57-58 with the assistant message added before the reply is read.
add_message_from_gpt_response_add_first(msgs, idx, response) ==
    LET r == reply(response)
        a == add_message(msgs, idx, "assistant", r.value)
    IN  [raised |-> r.raised, messages |-> a.messages, message_index |-> a.message_index]

\* lines 57-58 with the type check of add_message_from_user applied to the reply.
add_message_from_gpt_response_validated(msgs, idx, response) ==
    LET r == reply(response)
    IN  IF r.raised # NoException
        THEN [raised |-> r.raised, messages |-> msgs, message_index |-> idx]
        ELSE IF r.value.ty # "str"
        THEN [raised |-> "ValueError", messages |-> msgs, message_index |-> idx]
        ELSE LET a == add_message(msgs, idx, "assistant", r.value)
             IN  [raised |-> NoException, messages |-> a.messages, message_index |-> a.message_index]

\* lines 57-58
add_message_from_gpt_response(msgs, idx, response) ==
    LET r == reply(response)
    IN  IF r.raised # NoException
        THEN [raised |-> r.raised, messages |-> msgs, message_index |-> idx]
        ELSE LET a == add_message(msgs, idx, "assistant", r.value)
             IN  [raised |-> NoException, messages |-> a.messages, message_index |-> a.message_index]

\* lines 70-72 with the type check after the append.
add_message_from_user_check_late(msgs, idx, msg) ==
    LET a == add_message(msgs, idx, "user", msg)
    IN  [raised |-> IF msg.ty # "str" THEN "ValueError" ELSE NoException, messages |-> a.messages, message_index |-> a.message_index]

\* lines 70-72 adding the message under the role 'system'.
add_message_from_user_as_system(msgs, idx, msg) ==
    IF msg.ty # "str"
    THEN [raised |-> "ValueError", messages |-> msgs, message_index |-> idx]
    ELSE LET a == add_message(msgs, idx, "system", msg)
         IN  [raised |-> NoException, messages |-> a.messages, message_index |-> a.message_index]

\* lines 70-72
add_message_from_user(msgs, idx, msg) ==
    IF msg.ty # "str"
    THEN [raised |-> "ValueError", messages |-> msgs, message_index |-> idx]
    ELSE LET a == add_message(msgs, idx, "user", msg)
         IN  [raised |-> NoException, messages |-> a.messages, message_index |-> a.message_index]

\* lines 97-105 sending only the most recent message.
create_kwargs_last_message(m, msgs, t, mt, tp, fp, pp) == [sent |-> TRUE, model |-> m, messages |-> <<msgs[Len(msgs)]>>, temperature |-> t, max_tokens |-> mt, top_p |-> tp, frequency_penalty |-> fp, presence_penalty |-> pp]

\* lines 97-105: the keyword arguments of openai.ChatCompletion.create
create_kwargs(m, msgs, t, mt, tp, fp, pp) == [sent |-> TRUE, model |-> m, messages |-> msgs, temperature |-> t, max_tokens |-> mt, top_p |-> tp, frequency_penalty |-> fp, presence_penalty |-> pp]

NoRequest == [sent |-> FALSE, model |-> "", messages |-> <<>>, temperature |-> 0, max_tokens |-> 0, top_p |-> 0, frequency_penalty |-> 0, presence_penalty |-> 0]

\* lines 107-110: the except clauses, in order; an exception neither matches
\* propagates.
except_clauses(exc) ==
    IF exc = NoException THEN [raised |-> NoException, printed |-> ""]
    ELSE IF IsInstance(exc, "APIError") THEN [raised |-> NoException, printed |-> "An OpenAI error occurred"]
    ELSE IF IsInstance(exc, "Exception") THEN [raised |-> NoException, printed |-> "An unexpected error occurred"]
    ELSE [raised |-> exc, printed |-> ""]

\* lines 96-110, given what create() did
get_chatgpt_response(msgs, idx, outcome) ==
    LET body == IF outcome.kind # "response"
                THEN [raised |-> outcome.kind, messages |-> msgs, message_index |-> idx]
                ELSE add_message_from_gpt_response(msgs, idx, outcome)
        h == except_clauses(body.raised)
    IN  [raised |-> h.raised, printed |-> h.printed, messages |-> body.messages, message_index |-> body.message_index]

\* list.__getitem__ taking every negative index modulo the length.
list_getitem_modulo(lst, i) ==
    IF 0 <= i /\ i < Len(lst) THEN Value(lst[i + 1])
    ELSE IF i < 0 THEN Value(lst[(i % Len(lst)) + 1])
    ELSE Raise("IndexError")

\* list.__getitem__ with an integer: a negative index counts from the end.
list_getitem(lst, i) ==
    IF 0 <= i /\ i < Len(lst) THEN Value(lst[i + 1])
    ELSE IF 0 - Len(lst) <= i /\ i < 0 THEN Value(lst[Len(lst) + i + 1])
    ELSE Raise("IndexError")

\* The attributes of a dict object; its keys are not among them.
DictAttributes == { "clear", "copy", "fromkeys", "get", "items", "keys", "pop", "popitem", "setdefault", "update", "values" }

\* Attribute access on a dict (line 125: .content on an element of messages).
dict_getattr(d, name) ==
    IF name \in DictAttributes THEN Value(PyValue("builtin_function_or_method", name))
    ELSE Raise("AttributeError")

\* lines 122-125
get_response(msgs, idx, i) ==
    LET at == IF i.is_none THEN idx ELSE i.n
        item == list_getitem(msgs, at)
    IN  IF item.raised # NoException THEN Raise(item.raised)
        ELSE dict_getattr(item.value, "content")

----------------------------------------------------------------------------
(* The state machine: Init is a constructed handler, each action one call. *)

State(msgs, idx) == [messages |-> msgs, message_index |-> idx]

\* lines 29-40
Init ==
    /\ api_key \in ApiKeys
    /\ system_context \in SystemContexts
    /\ \E c \in GenerationConfigs :
        /\ model = c.model
        /\ temperature = c.temperature
        /\ max_tokens = c.max_tokens
        /\ top_p = c.top_p
        /\ frequency_penalty = c.frequency_penalty
        /\ presence_penalty = c.presence_penalty
    /\ messages = init_history(system_context).messages
    /\ message_index = init_history(system_context).message_index
    /\ op = "__init__"
    /\ user_msg = PyNone
    /\ gpt_response = NoResponse
    /\ index = IndexNone
    /\ pre = State(<<>>, 0 - 1)
    /\ request = NoRequest
    /\ raised = NoException
    /\ returned = PyNone
    /\ printed = ""
    /\ pc = "idle"

\* clear_history also dropping the stored system context.
ClearHistory_drops_context ==
    /\ op' = "clear_history"
    /\ pre' = State(messages, message_index)
    /\ messages' = clear_history(messages, message_index, system_context).messages
    /\ message_index' = clear_history(messages, message_index, system_context).message_index
    /\ system_context' = PyValue("str", "")
    /\ user_msg' = PyNone
    /\ gpt_response' = NoResponse
    /\ index' = IndexNone
    /\ request' = NoRequest
    /\ raised' = NoException
    /\ returned' = PyNone
    /\ printed' = ""
    /\ UNCHANGED <<api_key, model, temperature, max_tokens, top_p, frequency_penalty, presence_penalty, pc>>

\* lines 42-48
ClearHistory ==
    /\ op' = "clear_history"
    /\ pre' = State(messages, message_index)
    /\ messages' = clear_history(messages, message_index, system_context).messages
    /\ message_index' = clear_history(messages, message_index, system_context).message_index
    /\ user_msg' = PyNone
    /\ gpt_response' = NoResponse
    /\ index' = IndexNone
    /\ request' = NoRequest
    /\ raised' = NoException
    /\ returned' = PyNone
    /\ printed' = ""
    /\ UNCHANGED <<config, pc>>

\* lines 50-58, called by the user of the class
AddMessageFromGptResponse ==
    \E response \in GptResponseArguments :
        LET r == add_message_from_gpt_response(messages, message_index, response)
        IN  /\ Len(r.messages) <= MaxLen
            /\ op' = "add_message_from_gpt_response"
            /\ pre' = State(messages, message_index)
            /\ gpt_response' = response
            /\ messages' = r.messages
            /\ message_index' = r.message_index
            /\ raised' = r.raised
            /\ user_msg' = PyNone
            /\ index' = IndexNone
            /\ request' = NoRequest
            /\ returned' = PyNone
            /\ printed' = ""
            /\ UNCHANGED <<config, pc>>

\* lines 60-72
AddMessageFromUser ==
    \E msg \in UserMsgs :
        LET r == add_message_from_user(messages, message_index, msg)
        IN  /\ Len(r.messages) <= MaxLen
            /\ op' = "add_message_from_user"
            /\ pre' = State(messages, message_index)
            /\ user_msg' = msg
            /\ messages' = r.messages
            /\ message_index' = r.message_index
            /\ raised' = r.raised
            /\ gpt_response' = NoResponse
            /\ index' = IndexNone
            /\ request' = NoRequest
            /\ returned' = PyNone
            /\ printed' = ""
            /\ UNCHANGED <<config, pc>>

\* lines 88-110
GetChatgptResponse ==
    \E outcome \in CreateOutcomes :
        LET r == get_chatgpt_response(messages, message_index, outcome)
        IN  /\ Len(r.messages) <= MaxLen
            /\ op' = "get_chatgpt_response"
            /\ pre' = State(messages, message_index)
            /\ request' = create_kwargs(model, messages, temperature, max_tokens, top_p, frequency_penalty, presence_penalty)
            /\ gpt_response' = outcome
            /\ messages' = r.messages
            /\ message_index' = r.message_index
            /\ raised' = r.raised
            /\ printed' = r.printed
            /\ user_msg' = PyNone
            /\ index' = IndexNone
            /\ returned' = PyNone
            /\ UNCHANGED <<config, pc>>

\* get_response with line 123 assigning the cursor from the index.
GetResponse_sets_cursor ==
    \E i \in Indices :
        LET r == get_response(messages, message_index, i)
        IN  /\ op' = "get_response"
            /\ pre' = State(messages, message_index)
            /\ index' = i
            /\ raised' = r.raised
            /\ returned' = r.value
            /\ message_index' = IF i.is_none THEN message_index ELSE i.n
            /\ user_msg' = PyNone
            /\ gpt_response' = NoResponse
            /\ request' = NoRequest
            /\ printed' = ""
            /\ UNCHANGED <<config, messages, pc>>

\* lines 112-125
GetResponse ==
    \E i \in Indices :
        LET r == get_response(messages, message_index, i)
        IN  /\ op' = "get_response"
            /\ pre' = State(messages, message_index)
            /\ index' = i
            /\ raised' = r.raised
            /\ returned' = r.value
            /\ user_msg' = PyNone
            /\ gpt_response' = NoResponse
            /\ request' = NoRequest
            /\ printed' = ""
            /\ UNCHANGED <<config, messages, message_index, pc>>

Next ==
    \/ GetResponse
    \/ GetChatgptResponse
    \/ AddMessageFromUser
    \/ AddMessageFromGptResponse
    \/ ClearHistory

Spec == Init /\ [][Next]_vars

----------------------------------------------------------------------------
(* Properties *)

Current == State(messages, message_index)

\* C1: between any two calls, message_index is the number of messages minus one.
C1_CursorIsLast == message_index = Len(messages) - 1

\* C1 witness: a rejected add_message_from_user on a transcript of several turns.
C1_Witness == op = "add_message_from_user" /\ raised = "ValueError" /\ Len(messages) >= 3

\* C2: right after construction and right after clear_history, whatever came
\* before, the transcript is the single system message built from the stored
\* system_context and message_index is 0.
C2_ResetToSystemMessage ==
    op \in {"__init__", "clear_history"} =>
        /\ messages = <<Message("system", system_context)>>
        /\ message_index = 0

\* C2 witness: clear_history called on a transcript of several turns.
C2_Witness == op = "clear_history" /\ Len(pre.messages) >= 3

CreateRaised == gpt_response.kind \in {"APIError", "RateLimitError"}

FirstChoiceUsable == gpt_response.kind = "response" /\ Len(gpt_response.choices) >= 1 /\ gpt_response.choices[1].has_message

\* C3: a get_chatgpt_response in which create() raised, or returned a reply
\* with no first candidate or a first candidate without message content,
\* leaves messages and message_index as they were when it was called.
C3_FailureLeavesTranscript ==
    (op = "get_chatgpt_response" /\ (CreateRaised \/ ~FirstChoiceUsable)) => Current = pre

\* C3 witness: create() returned no candidates after a user turn.
C3_Witness == op = "get_chatgpt_response" /\ gpt_response = Response(<<>>) /\ Len(pre.messages) >= 2

\* C4: get_chatgpt_response never raises to its caller, and the only errors a
\* caller sees are ValueError from add_message_from_user and IndexError from
\* get_response.
C4_OnlyValidationErrorsSurface ==
    /\ op = "get_chatgpt_response" => raised = NoException
    /\ raised # NoException =>
        \/ op = "add_message_from_user" /\ raised = "ValueError"
        \/ op = "get_response" /\ raised = "IndexError"

\* The part of C4 about get_chatgpt_response alone.
GetChatgptResponseNeverRaises == op = "get_chatgpt_response" => raised = NoException

\* C5: a get_chatgpt_response whose create() returned a reply with a usable
\* first candidate appends exactly one message, assistant with that first
\* candidate's content, and advances message_index by one.
C5_SuccessAppendsFirstChoice ==
    (op = "get_chatgpt_response" /\ FirstChoiceUsable) =>
        /\ messages = Append(pre.messages, Message("assistant", gpt_response.choices[1].content))
        /\ message_index = pre.message_index + 1

\* C5 witness: create() returned two candidates with different contents.
C5_Witness ==
    /\ op = "get_chatgpt_response"
    /\ FirstChoiceUsable
    /\ Len(gpt_response.choices) = 2
    /\ gpt_response.choices[2].has_message
    /\ gpt_response.choices[2].content # gpt_response.choices[1].content

\* C6: add_message_from_user with a non-textual argument raises ValueError to
\* the caller and leaves messages and message_index as they were.
C6_NonTextRejected ==
    (op = "add_message_from_user" /\ ~IsTextual(user_msg)) =>
        /\ raised = "ValueError"
        /\ Current = pre

\* C6 witness: add_message_from_user(42) after a user turn.
C6_Witness == op = "add_message_from_user" /\ user_msg = PyValue("int", "42") /\ Len(pre.messages) >= 2

\* C7: get_response(i) with 0 <= i < len(messages) returns the content of
\* message i; with no argument it returns the content of the last message.
C7_ReturnsContent ==
    op = "get_response" =>
        /\ (~index.is_none /\ 0 <= index.n /\ index.n < Len(messages)) =>
            (raised = NoException /\ returned = messages[index.n + 1].content)
        /\ index.is_none =>
            (raised = NoException /\ returned = messages[Len(messages)].content)

\* C8 as stated: get_response(i) raises IndexError for every integer i
\* outside [0, len(messages)), negative ones included.
C8_Original ==
    (op = "get_response" /\ ~index.is_none /\ (index.n < 0 \/ index.n >= Len(messages))) =>
        (raised = "IndexError" /\ returned = PyNone)

\* C8: get_response(i) raises IndexError, and returns nothing, for every
\* integer i with i >= len(messages) or i < -len(messages).
C8_OutOfRangeRaises ==
    (op = "get_response" /\ ~index.is_none /\ (index.n < 0 - Len(messages) \/ index.n >= Len(messages))) =>
        (raised = "IndexError" /\ returned = PyNone)

\* C8 witness: an index below -len(messages) on a transcript of several turns.
C8_Witness == op = "get_response" /\ ~index.is_none /\ index.n < 0 - Len(messages) /\ Len(messages) >= 2 /\ raised = "IndexError"

\* C9: every get_chatgpt_response passes to create() the whole transcript as
\* it stood when the call started, in order, and the six stored parameters.
C9_RequestIsTranscriptAndConfig ==
    op = "get_chatgpt_response" =>
        request = [sent |-> TRUE, model |-> model, messages |-> pre.messages, temperature |-> temperature, max_tokens |-> max_tokens, top_p |-> top_p, frequency_penalty |-> frequency_penalty, presence_penalty |-> presence_penalty]

\* C9 witness: a request made with a transcript of several turns.
C9_Witness == op = "get_chatgpt_response" /\ request.sent /\ Len(request.messages) >= 3

\* C10: the transcript is never empty and its first message is the system
\* message with the stored system_context.
C10_SystemMessageFirst == Len(messages) >= 1 /\ messages[1] = Message("system", system_context)

\* C10 witness: a transcript grown by a direct assistant message.
C10_Witness == op = "add_message_from_gpt_response" /\ raised = NoException /\ Len(messages) >= 3

\* C11 as stated: add_message_from_gpt_response succeeds whatever it is given,
\* appends one assistant message and advances message_index by one.
C11_Original ==
    op = "add_message_from_gpt_response" =>
        /\ raised = NoException
        /\ Len(messages) = Len(pre.messages) + 1
        /\ messages[Len(messages)].role = "assistant"
        /\ message_index = pre.message_index + 1

\* C11: add_message_from_gpt_response given a reply whose first candidate has
\* message content v succeeds for every v, textual or not, appends
\* Message(assistant, v) and advances message_index by one.
C11_ReplyContentAppendedUnvalidated ==
    (op = "add_message_from_gpt_response" /\ FirstChoiceUsable) =>
        /\ raised = NoException
        /\ messages = Append(pre.messages, Message("assistant", gpt_response.choices[1].content))
        /\ message_index = pre.message_index + 1

\* C11 witness: a reply whose content is the number 42 has been appended.
C11_Witness ==
    /\ op = "add_message_from_gpt_response"
    /\ FirstChoiceUsable
    /\ gpt_response.choices[1].content = PyValue("int", "42")
    /\ messages[Len(messages)] = Message("assistant", PyValue("int", "42"))

\* C12: no call changes the stored system_context, the six generation
\* parameters or the API key: they stay as the constructor set them.
C12_ConfigNeverChanges == [][config' = config]_vars

\* C12 witness: a completion request that failed after a turn was added.
C12_Witness == op = "get_chatgpt_response" /\ printed = "An OpenAI error occurred" /\ Len(messages) >= 2

IsPrefix(s, t) == Len(s) <= Len(t) /\ SubSeq(t, 1, Len(s)) = s

C15_GetResponseReadOnly == op = "get_response" => Current = pre

\* C15 witness: get_response with an explicit index other than the cursor.
C15_Witness == op = "get_response" /\ ~index.is_none /\ index.n # message_index /\ Len(messages) >= 2

\* C16: the transcript has exactly one system message, at index 0; every
\* later message has role user or assistant.
C16_OneSystemMessage ==
    /\ Len(messages) >= 1
    /\ messages[1].role = "system"
    /\ \A i \in 2..Len(messages) : messages[i].role \in {"user", "assistant"}

\* C16 witness: a transcript holding a user and an assistant message.
C16_Witness ==
    /\ \E i \in 2..Len(messages) : messages[i].role = "user"
    /\ \E i \in 2..Len(messages) : messages[i].role = "assistant"

----------------------------------------------------------------------------
(* The same calls line by line: a call that changes messages or             *)
(* message_index takes one step per assignment (lines 46, 47, 82, 86).      *)
(* What the caller passes and observes is recorded when the call starts.    *)

observed == <<op, user_msg, gpt_response, index, pre, request, raised, returned, printed>>

\* lines 29-39 have run: the fields are set, the list is empty, the cursor
\* is -1, and line 40 is next.  (Before line 39 message_index does not exist.)
InitSteps ==
    /\ api_key \in ApiKeys
    /\ system_context \in SystemContexts
    /\ \E c \in GenerationConfigs :
        /\ model = c.model
        /\ temperature = c.temperature
        /\ max_tokens = c.max_tokens
        /\ top_p = c.top_p
        /\ frequency_penalty = c.frequency_penalty
        /\ presence_penalty = c.presence_penalty
    /\ messages = <<>>
    /\ message_index = 0 - 1
    /\ op = "__init__"
    /\ user_msg = PyNone
    /\ gpt_response = NoResponse
    /\ index = IndexNone
    /\ pre = State(<<>>, 0 - 1)
    /\ request = NoRequest
    /\ raised = NoException
    /\ returned = PyNone
    /\ printed = ""
    /\ pc = "40"

\* A caller starts method name; rs and pr are what it will observe.
StartCall(name, um, gr, ix, rq, rs, pr) ==
    /\ pc = "idle"
    /\ op' = name
    /\ pre' = State(messages, message_index)
    /\ user_msg' = um
    /\ gpt_response' = gr
    /\ index' = ix
    /\ request' = rq
    /\ raised' = rs
    /\ printed' = pr
    /\ UNCHANGED config

\* line 46
ClearHistoryLine46 ==
    /\ StartCall("clear_history", PyNone, NoResponse, IndexNone, NoRequest, NoException, "")
    /\ returned' = PyNone
    /\ messages' = <<>>
    /\ pc' = "47"
    /\ UNCHANGED message_index

\* clear_history without line 47: the cursor is not reset.
ClearHistoryLine47_skipped ==
    /\ pc = "47"
    /\ pc' = "48"
    /\ UNCHANGED <<config, observed, messages, message_index>>

\* line 47
ClearHistoryLine47 ==
    /\ pc = "47"
    /\ message_index' = 0 - 1
    /\ pc' = "48"
    /\ UNCHANGED <<config, observed, messages>>

\* lines 40 and 48 calling add_message: lines 82-85 with the system message
SystemMessageLine82 ==
    /\ pc \in {"40", "48"}
    /\ messages' = Append(messages, Message("system", system_context))
    /\ pc' = "86"
    /\ UNCHANGED <<config, observed, message_index>>

\* line 86, after which add_message and its caller return
AddMessageLine86 ==
    /\ pc = "86"
    /\ message_index' = message_index + 1
    /\ pc' = "idle"
    /\ UNCHANGED <<config, observed, messages>>

\* lines 70-72 up to the append of line 82
AddMessageFromUserSteps ==
    \E msg \in UserMsgs :
        /\ returned' = PyNone
        /\ UNCHANGED message_index
        /\ IF msg.ty # "str"
           THEN /\ StartCall("add_message_from_user", msg, NoResponse, IndexNone, NoRequest, "ValueError", "")
                /\ UNCHANGED <<messages, pc>>
           ELSE /\ Len(messages) < MaxLen
                /\ StartCall("add_message_from_user", msg, NoResponse, IndexNone, NoRequest, NoException, "")
                /\ messages' = Append(messages, Message("user", msg))
                /\ pc' = "86"

\* lines 57-58 up to the append of line 82
AddMessageFromGptResponseSteps ==
    \E response \in GptResponseArguments :
        LET r == reply(response)
        IN  /\ returned' = PyNone
            /\ UNCHANGED message_index
            /\ StartCall("add_message_from_gpt_response", PyNone, response, IndexNone, NoRequest, r.raised, "")
            /\ IF r.raised # NoException
               THEN UNCHANGED <<messages, pc>>
               ELSE /\ Len(messages) < MaxLen
                    /\ messages' = Append(messages, Message("assistant", r.value))
                    /\ pc' = "86"

\* lines 96-110 up to the append of line 82
GetChatgptResponseSteps ==
    \E outcome \in CreateOutcomes :
        LET r == IF outcome.kind # "response" THEN Raise(outcome.kind) ELSE reply(outcome)
            h == except_clauses(r.raised)
            rq == create_kwargs(model, messages, temperature, max_tokens, top_p, frequency_penalty, presence_penalty)
        IN  /\ returned' = PyNone
            /\ UNCHANGED message_index
            /\ StartCall("get_chatgpt_response", PyNone, outcome, IndexNone, rq, h.raised, h.printed)
            /\ IF r.raised # NoException
               THEN UNCHANGED <<messages, pc>>
               ELSE /\ Len(messages) < MaxLen
                    /\ messages' = Append(messages, Message("assistant", r.value))
                    /\ pc' = "86"

\* lines 122-125
GetResponseSteps ==
    \E i \in Indices :
        LET r == get_response(messages, message_index, i)
        IN  /\ StartCall("get_response", PyNone, NoResponse, i, NoRequest, r.raised, "")
            /\ returned' = r.value
            /\ UNCHANGED <<messages, message_index, pc>>

NextSteps ==
    \/ SystemMessageLine82
    \/ AddMessageLine86
    \/ ClearHistoryLine46
    \/ ClearHistoryLine47
    \/ AddMessageFromUserSteps
    \/ AddMessageFromGptResponseSteps
    \/ GetChatgptResponseSteps
    \/ GetResponseSteps

SpecSteps == InitSteps /\ [][NextSteps]_vars

\* A call of __init__ or clear_history is in progress.
InResetCall == pc # "idle" /\ op \in {"__init__", "clear_history"}

\* C14 as stated: in every state, those inside a call included, message_index
\* is a valid index when the list is not empty and is -1 exactly when it is
\* empty, and the list is empty only inside __init__ and clear_history.
C14_Original ==
    /\ Len(messages) > 0 => (0 <= message_index /\ message_index < Len(messages))
    /\ (message_index = 0 - 1) <=> (Len(messages) = 0)
    /\ Len(messages) = 0 => InResetCall

\* C14: in every state outside __init__ and clear_history, those inside the
\* append calls included, the list is not empty and message_index is a valid
\* index into it (so an empty list and a cursor of -1 occur only inside
\* __init__ and clear_history, never where a caller's next call starts); and
\* when __init__ or clear_history is about to add the system message the list
\* is empty and the cursor is -1.
C14_CursorValidOutsideReset ==
    /\ ~InResetCall => (Len(messages) >= 1 /\ 0 <= message_index /\ message_index < Len(messages))
    /\ pc \in {"40", "48"} => (Len(messages) = 0 /\ message_index = 0 - 1)

\* C14 witness: between lines 82 and 86 of a user message added to a
\* transcript of several turns.
C14_Witness == pc = "86" /\ op = "add_message_from_user" /\ Len(messages) >= 3 /\ message_index = Len(messages) - 2

====
